---- MODULE Spec2Model ----
(***************************************************************************)
(* Model of pymatgen/command_line/mcsqs_caller.py: run_mcsqs, which        *)
(* prepares a run directory, launches the external mcsqs search instances, *)
(* waits for them with a timeout, kills them on expiry, runs the           *)
(* "mcsqs -best" reduction and hands the directory to _parse_sqs_path,     *)
(* which converts and parses the output files into an Sqs tuple.           *)
(*                                                                         *)
(* Text (file names, file lines) is a sequence of string tokens, a file is *)
(* a sequence of lines, the run directory is a function from the names     *)
(* present to their contents.  A Python float is [type |-> "float", v],    *)
(* v in hundredths; a Python str result is [type |-> "str", v].            *)
(***************************************************************************)
EXTENDS Integers, Sequences, FiniteSets, TLC

\* ------------------------------------------------------------------ bounds
\* largest value of the instances argument
MaxInstances == 3
\* search_time * 60, in clock ticks
Budget == 2
\* len(structure) of the structure passed in
AtomCount == 2
\* largest value of the instances argument where the scaling and directory
\* arguments vary
InputInstances == 2

\* ------------------------------------------------------- text and numbers
DigitChars == <<"0", "1", "2", "3", "4", "5", "6", "7", "8", "9">>

Digits == {DigitChars[k] : k \in 1..10}

RECURSIVE DecStr(_)
\* '{}'.format(n) for a natural number n: its decimal digits
DecStr(n) ==
    IF n < 10 THEN <<DigitChars[n + 1]>>
    ELSE DecStr(n \div 10) \o <<DigitChars[(n % 10) + 1]>>

\* '{}'.format(n) for an integer n
IntStr(n) == IF n < 0 THEN <<"-">> \o DecStr(0 - n) ELSE DecStr(n)

\* 'bestsqs{}.out'.format(i + 1) and its siblings; k is the number formatted
SqsOutName(k) == <<"bestsqs">> \o DecStr(k) \o <<".out">>
SqsCifName(k) == <<"bestsqs">> \o DecStr(k) \o <<".cif">>
CorrOutName(k) == <<"bestcorr">> \o DecStr(k) \o <<".out">>

BestSqsOut == <<"bestsqs", ".out">>
BestSqsCif == <<"bestsqs", ".cif">>
BestCorrOut == <<"bestcorr", ".out">>
RndstrIn == <<"rndstr", ".in">>

\* the texts the search binary writes after "Objective_function=":
\* decimal numerals, or the sentinel
Numerals == {"0.25", "0.5"}
PerfectMatch == "Perfect_match"
ObjTexts == Numerals \cup {PerfectMatch}

\* the texts a search instance reports: the run-level best may be lower
InstanceTexts == {"0.5", PerfectMatch}

Whitespace == {" ", "\n"}

\* the value of a numeral, in hundredths
NumeralValue(t) == IF t = "0.25" THEN 25 ELSE 50

RECURSIVE LStrip(_)
LStrip(s) == IF s # <<>> /\ Head(s) \in Whitespace THEN LStrip(Tail(s)) ELSE s

RECURSIVE RStrip(_)
RStrip(s) ==
    IF s # <<>> /\ s[Len(s)] \in Whitespace
    THEN RStrip(SubSeq(s, 1, Len(s) - 1))
    ELSE s

\* str.strip()
Strip(s) == LStrip(RStrip(s))

RECURSIVE LastField(_)
\* line.split('=')[-1]: what follows the last "=", the whole line if none
LastField(s) ==
    IF \E j \in 1..Len(s) : s[j] = "="
    THEN LastField(SubSeq(s, (CHOOSE j \in 1..Len(s) : s[j] = "=") + 1, Len(s)))
    ELSE s

\* lines[-1].split('=')[-1].strip()
ObjectiveText(lines) == Strip(LastField(lines[Len(lines)]))

\* float(text) succeeds on a single numeral
IsFloatText(text) == Len(text) = 1 /\ text[1] \in Numerals

FloatOf(text) == [type |-> "float", v |-> NumeralValue(text[1])]

StrOf(text) == [type |-> "str", v |-> text[1]]

Sentinel == [type |-> "str", v |-> PerfectMatch]

\* ------------------------------------------------------------ file bodies
\* an ATAT structure file holding the structure found by search instance d
StrFile(d) == << <<"atat", "\n">>, <<"sqs", d, "\n">> >>

\* a correlation report whose last line carries the objective text t
CorrFile(t) == << <<"corr", "\n">>, <<"Objective_function", "=", " ", t, "\n">> >>

IsStrFile(body) == Len(body) >= 1 /\ body[1] = <<"atat", "\n">>
IsCifFile(body) == Len(body) >= 1 /\ body[1] = <<"cif", "\n">>

\* the external converter, on the body of its input
Str2Cif(body) == << <<"cif", "\n">> >> \o Tail(body)

\* Structure.from_file on the body of a cif file: the structure it describes
StructureOf(body) == Tail(body)

\* ------------------------------------------------------ the run directory
Exists(dir, name) == name \in DOMAIN dir

WriteFile(dir, name, body) == (name :> body) @@ dir

\* mutant of GlobIndexedBestsqs: the pattern names the report files
GlobIndexedBestcorr(dir) ==
    {n \in DOMAIN dir : n[1] = "bestcorr" /\ \E j \in 2..Len(n) : n[j] \in Digits}

\* path.glob('bestsqs*[0-9]*'): the names that start with bestsqs and hold a
\* digit somewhere after it, whatever their extension
GlobIndexedBestsqs(dir) ==
    {n \in DOMAIN dir : n[1] = "bestsqs" /\ \E j \in 2..Len(n) : n[j] \in Digits}

\* Popen("str2cif < src > dst", shell=True).communicate(): the shell fails on
\* a missing src before it opens dst; the exit status is never looked at
ShellStr2Cif(dir, src, dst) ==
    IF ~Exists(dir, src) THEN dir
    ELSE IF IsStrFile(dir[src]) THEN WriteFile(dir, dst, Str2Cif(dir[src]))
    ELSE WriteFile(dir, dst, <<>>)

\* Structure.from_file(name) succeeds on an existing cif file
CanReadStructure(dir, name) == Exists(dir, name) /\ IsCifFile(dir[name])

\* --------------------------------------------------------- _parse_sqs_path
Returned(dir, value) == [files |-> dir, exc |-> "none", value |-> value]

Raised(dir, exc) == [files |-> dir, exc |-> exc, value |-> <<>>]

\* mutant of BestObjective: the float conversion is left out
BestKeptAsText(text) == StrOf(text)

\* lines 213-215: the objective function of bestcorr.out
BestObjective(text) ==
    IF text # <<PerfectMatch>> THEN FloatOf(text) ELSE StrOf(text)

\* mutant of InstanceObjective: the sentinel is kept, not replaced
KeepsSentinel(text, objective_function) ==
    IF text = <<PerfectMatch>> THEN StrOf(text) ELSE FloatOf(text)

\* lines 238-242: the objective function of instance i, given the best one
InstanceObjective(text, objective_function) ==
    IF text = <<PerfectMatch>> THEN objective_function ELSE FloatOf(text)

\* float(text) is reached and raises ValueError
FloatRaises(text) == text # <<PerfectMatch>> /\ ~IsFloatText(text)

RECURSIVE InstanceLoop(_, _, _, _, _)
\* lines 220-243: for i in range(instances), from iteration i on; allsqs is
\* the list built so far
InstanceLoop(dir, i, instances, objective_function, allsqs) ==
    IF i >= instances THEN Returned(dir, allsqs)
    ELSE
        LET sqs_out == SqsOutName(i + 1)
            sqs_cif == SqsCifName(i + 1)
            corr_out == CorrOutName(i + 1)
            dir1 == ShellStr2Cif(dir, sqs_out, sqs_cif)
        IN  IF ~CanReadStructure(dir1, sqs_cif) THEN Raised(dir1, "FileNotFoundError")
            ELSE IF ~Exists(dir1, corr_out) THEN Raised(dir1, "FileNotFoundError")
            ELSE IF dir1[corr_out] = <<>> THEN Raised(dir1, "IndexError")
            ELSE IF FloatRaises(ObjectiveText(dir1[corr_out])) THEN Raised(dir1, "ValueError")
            ELSE InstanceLoop(dir1, i + 1, instances, objective_function,
                     Append(allsqs,
                         [structure |-> StructureOf(dir1[sqs_cif]),
                          objective_function |->
                              InstanceObjective(ObjectiveText(dir1[corr_out]),
                                                objective_function)]))

\* lines 191-250: _parse_sqs_path(path), with path the directory named where
\* and dir its contents; the result carries the directory as it is left
ParseSqsPath(dir, where) ==
    LET instances == Cardinality(GlobIndexedBestsqs(dir))
        dir1 == ShellStr2Cif(dir, BestSqsOut, BestSqsCif)
    IN  IF ~CanReadStructure(dir1, BestSqsCif) THEN Raised(dir1, "FileNotFoundError")
        ELSE IF ~Exists(dir1, BestCorrOut) THEN Raised(dir1, "FileNotFoundError")
        ELSE IF dir1[BestCorrOut] = <<>> THEN Raised(dir1, "IndexError")
        ELSE IF FloatRaises(ObjectiveText(dir1[BestCorrOut])) THEN Raised(dir1, "ValueError")
        ELSE
            LET objective_function == BestObjective(ObjectiveText(dir1[BestCorrOut]))
                loop == InstanceLoop(dir1, 0, instances, objective_function, <<>>)
            IN  IF loop.exc # "none" THEN loop
                ELSE Returned(loop.files,
                         [bestsqs |-> StructureOf(dir1[BestSqsCif]),
                          objective_function |-> objective_function,
                          allsqs |-> loop.value,
                          directory |-> where])

\* -------------------------------------------------------------- run_mcsqs
VARIABLES
    pc,                  \* the statement run_mcsqs is at
    is_ordered,          \* structure.is_ordered
    instances,           \* the instances argument
    cwd,                 \* the process working directory
    original_directory,  \* line 85
    files,               \* the contents of the run directory
    clusters_p,          \* the cluster generation process
    procs,               \* mcsqs_find_sqs_processes and the state of each
    idx,                 \* the position of the loop being run
    elapsed,             \* ticks since the communicate(timeout) in progress began
    waited,              \* ticks since the first wait began
    timedOut,            \* TimeoutExpired was caught
    timeoutAt,           \* the process whose wait timed out, 0 if none
    best_p,              \* the "mcsqs -best" process
    nBest,               \* how many times "mcsqs -best" was launched
    nParse,              \* how many times run_mcsqs called _parse_sqs_path
    checked,             \* what the os.path.exists test of the run found
    exc,                 \* the exception run_mcsqs raised
    calls,               \* outcomes of the last two _parse_sqs_path calls
    scaling,             \* the scaling argument
    directory,           \* the directory argument, then the run directory
    made_tmp,            \* tempfile.mkdtemp() created a directory
    structure,           \* the number of sites of structure
    num_atoms,           \* line 75
    mcsqs_find_sqs_cmd   \* lines 94 and 105

\* the arguments and locals of input preparation
prep == <<scaling, directory, made_tmp, structure, num_atoms, mcsqs_find_sqs_cmd>>

vars == <<pc, is_ordered, instances, cwd, original_directory, files, clusters_p,
          procs, idx, elapsed, waited, timedOut, timeoutAt, best_p, nBest,
          nParse, checked, exc, calls, prep>>

CallerDirectory == "caller"
RunDirectory == "run"
NoDirectory == "None"

\* a scalar scaling is the number num / den, a list scaling is abc
ScalarScaling(num, den) == [kind |-> "scalar", num |-> num, den |-> den, abc |-> <<>>]
ListScaling(a, b, c) == [kind |-> "list", num |-> 0, den |-> 1, abc |-> <<a, b, c>>]

\* the scaling arguments tried: 2, 0, -1, 1.5 and [2, 1, 1], [1, 2, 2]
Scalings ==
    {ScalarScaling(2, 1), ScalarScaling(0, 1), ScalarScaling(0 - 1, 1),
     ScalarScaling(3, 2), ListScaling(2, 1, 1), ListScaling(1, 2, 2)}

\* the values of temperature, wr, wn, wd and tol, as format prints them
TemperatureText == "1"
WrText == "1"
WnText == "1"
WdText == "0.5"
TolText == "0.001"

\* what holds at entry whatever the arguments are
InitLocals ==
    /\ pc = "start"
    /\ cwd = CallerDirectory
    /\ original_directory = "unset"
    /\ files = <<>>
    /\ clusters_p = "none"
    /\ procs = <<>>
    /\ idx = 0
    /\ elapsed = 0
    /\ waited = 0
    /\ timedOut = FALSE
    /\ timeoutAt = 0
    /\ best_p = "none"
    /\ nBest = 0
    /\ nParse = 0
    /\ checked = "none"
    /\ exc = "none"
    /\ calls = <<>>
    /\ made_tmp = FALSE
    /\ structure = AtomCount
    /\ num_atoms = 0
    /\ mcsqs_find_sqs_cmd = <<>>

\* runs with up to MaxInstances instances, scaling=2 and no directory given
Init ==
    /\ InitLocals
    /\ is_ordered \in BOOLEAN
    /\ instances \in 1..MaxInstances
    /\ scaling = ScalarScaling(2, 1)
    /\ directory = NoDirectory

\* runs with every scaling, with and without a directory given
InitInputs ==
    /\ InitLocals
    /\ is_ordered \in BOOLEAN
    /\ instances \in 1..InputInstances
    /\ scaling \in Scalings
    /\ directory \in {NoDirectory, RunDirectory}

\* mutant of RejectsStructure: the test of line 77 is left out
AcceptsAnyStructure(ordered) == FALSE

\* line 77
RejectsStructure(ordered) == ordered

\* lines 75-78
Validate ==
    /\ pc = "start"
    /\ num_atoms' = structure
    /\ IF RejectsStructure(is_ordered)
       THEN pc' = "raised" /\ exc' = "ValueError"
       ELSE pc' = "chdir" /\ exc' = exc
    /\ UNCHANGED <<is_ordered, instances, cwd, original_directory, files,
                   clusters_p, procs, idx, elapsed, waited, timedOut, timeoutAt,
                   best_p, nBest, nParse, checked, calls>>
    /\ UNCHANGED <<scaling, directory, made_tmp, structure, mcsqs_find_sqs_cmd>>

\* lines 85-88
Chdir ==
    /\ pc = "chdir"
    /\ original_directory' = cwd
    /\ IF directory = NoDirectory
       THEN directory' = RunDirectory /\ made_tmp' = TRUE
       ELSE directory' = directory /\ made_tmp' = made_tmp
    /\ cwd' = directory'
    /\ pc' = "scaling"
    /\ UNCHANGED <<is_ordered, instances, files, clusters_p, procs, idx, elapsed,
                   waited, timedOut, timeoutAt, best_p, nBest, nParse, checked,
                   exc, calls>>
    /\ UNCHANGED <<scaling, structure, num_atoms, mcsqs_find_sqs_cmd>>

SqscellOut == <<"sqscell", ".out">>

\* lines 100-103: what is written to sqscell.out
IdentityCell ==
    << <<"1", "\n">>, <<"1", " ", "0", " ", "0", "\n">>,
       <<"0", " ", "1", " ", "0", "\n">>, <<"0", " ", "0", " ", "1", "\n">> >>

\* mutant of ScalingIsFractional: the test of line 92 is left out
NeverFractional(s) == FALSE

\* line 92: scaling % 1 is not zero
ScalingIsFractional(s) == s.num % s.den # 0

\* mutant of CountFlag: the atom count is passed unscaled
UnscaledCountFlag(s, n) == <<"-n ">> \o IntStr(n)

\* line 94: "-n {}".format(scaling*num_atoms), for an integer scaling
CountFlag(s, n) == <<"-n ">> \o IntStr((s.num \div s.den) * n)

\* mutant of ScaledSites: the structure is scaled along a only
ScaledAlongA(sites, abc) == sites * abc[1]

\* line 104: the number of sites of structure*scaling
ScaledSites(sites, abc) == sites * abc[1] * abc[2] * abc[3]

\* lines 90-105
Scaling ==
    /\ pc = "scaling"
    /\ IF scaling.kind = "scalar"
       THEN IF ScalingIsFractional(scaling)
            THEN /\ pc' = "raised" /\ exc' = "ValueError"
                 /\ UNCHANGED <<files, structure, mcsqs_find_sqs_cmd>>
            ELSE /\ mcsqs_find_sqs_cmd' = << <<"mcsqs">>, CountFlag(scaling, num_atoms) >>
                 /\ pc' = "prepare"
                 /\ UNCHANGED <<files, structure, exc>>
       ELSE /\ files' = WriteFile(files, SqscellOut, IdentityCell)
            /\ structure' = ScaledSites(structure, scaling.abc)
            /\ mcsqs_find_sqs_cmd' =
                   << <<"mcsqs">>, <<"-rc">>, <<"-n ">> \o IntStr(num_atoms) >>
            /\ pc' = "prepare"
            /\ exc' = exc
    /\ UNCHANGED <<is_ordered, instances, cwd, original_directory, clusters_p,
                   procs, idx, elapsed, waited, timedOut, timeoutAt, best_p,
                   nBest, nParse, checked, calls>>
    /\ UNCHANGED <<scaling, directory, made_tmp, num_atoms>>

\* structure.to(filename=...): the file describing a structure of n sites
RndstrFile(n) == << <<"rndstr", "\n">>, <<"sites", " ">> \o DecStr(n) \o <<"\n">> >>

\* line 107
Prepare ==
    /\ pc = "prepare"
    /\ files' = WriteFile(files, RndstrIn, RndstrFile(structure))
    /\ pc' = "clusters"
    /\ UNCHANGED <<is_ordered, instances, cwd, original_directory, clusters_p,
                   procs, idx, elapsed, waited, timedOut, timeoutAt, best_p,
                   nBest, nParse, checked, exc, calls>>
    /\ UNCHANGED prep

\* lines 115-117
ClustersLaunch ==
    /\ pc = "clusters"
    /\ clusters_p' = "running"
    /\ pc' = "clusters_wait"
    /\ UNCHANGED <<is_ordered, instances, cwd, original_directory, files, procs,
                   idx, elapsed, waited, timedOut, timeoutAt, best_p, nBest,
                   nParse, checked, exc, calls>>
    /\ UNCHANGED prep

\* line 118: the process exits and communicate() returns
ClustersFinish ==
    /\ pc = "clusters_wait"
    /\ clusters_p' = "reaped"
    /\ pc' = "launch"
    /\ idx' = 1
    /\ UNCHANGED <<is_ordered, instances, cwd, original_directory, files, procs,
                   elapsed, waited, timedOut, timeoutAt, best_p, nBest, nParse,
                   checked, exc, calls>>
    /\ UNCHANGED prep

\* mutant of InstanceFlag: the flag is range's i, not i + 1
ZeroBasedFlag(n, i) == IF n > 1 THEN i - 1 ELSE 0

\* mutant of LaunchCount: the loop of line 132 launches one process
LaunchesOne(n) == 1

\* the -ip flag of the idx-th Popen of lines 130-141; 0 is no flag
InstanceFlag(n, i) == IF n > 1 THEN i ELSE 0

\* how many processes lines 130-141 launch
LaunchCount(n) == IF n > 1 THEN n ELSE 1

\* lines 121-127
AddOns ==
    << <<"-T ", TemperatureText>>, <<"-wr ", WrText>>, <<"-wn ", WnText>>,
       <<"-wd ", WdText>>, <<"-tol ", TolText>> >>

\* lines 133 and 139: instance_cmd, nothing without the flag
InstanceCmd(ip) == IF ip = 0 THEN <<>> ELSE << <<"-ip ">> \o DecStr(ip) >>

\* lines 132-136 and 139-141: one Popen
Launch ==
    /\ pc = "launch"
    /\ procs' = Append(procs, [ip |-> InstanceFlag(instances, idx),
                               cmd |-> mcsqs_find_sqs_cmd \o AddOns \o
                                       InstanceCmd(InstanceFlag(instances, idx)),
                               st |-> "running", killed |-> FALSE])
    /\ IF idx < LaunchCount(instances)
       THEN idx' = idx + 1 /\ pc' = pc
       ELSE idx' = 1 /\ pc' = "wait"
    /\ UNCHANGED <<is_ordered, instances, cwd, original_directory, files,
                   clusters_p, elapsed, waited, timedOut, timeoutAt, best_p,
                   nBest, nParse, checked, exc, calls>>
    /\ UNCHANGED prep

\* ------------------------------------------------- the search instances
\* the names instance ip writes: indexed under -ip, the best names without
InstanceSqsOut(ip) == IF ip = 0 THEN BestSqsOut ELSE SqsOutName(ip)
InstanceCorrOut(ip) == IF ip = 0 THEN BestCorrOut ELSE CorrOutName(ip)

\* a running instance writes its best structure so far
InstanceWritesSqs(j) ==
    /\ j \in 1..Len(procs)
    /\ procs[j].st = "running"
    /\ ~Exists(files, InstanceSqsOut(procs[j].ip))
    /\ files' = WriteFile(files, InstanceSqsOut(procs[j].ip),
                          StrFile(DecStr(procs[j].ip)[1]))
    /\ UNCHANGED <<pc, is_ordered, instances, cwd, original_directory,
                   clusters_p, procs, idx, elapsed, waited, timedOut, timeoutAt,
                   best_p, nBest, nParse, checked, exc, calls>>
    /\ UNCHANGED prep

\* a running instance writes its correlation report
InstanceWritesCorr(j) ==
    /\ j \in 1..Len(procs)
    /\ procs[j].st = "running"
    /\ ~Exists(files, InstanceCorrOut(procs[j].ip))
    /\ \E t \in InstanceTexts :
           files' = WriteFile(files, InstanceCorrOut(procs[j].ip), CorrFile(t))
    /\ UNCHANGED <<pc, is_ordered, instances, cwd, original_directory,
                   clusters_p, procs, idx, elapsed, waited, timedOut, timeoutAt,
                   best_p, nBest, nParse, checked, exc, calls>>
    /\ UNCHANGED prep

\* a running instance exits on its own
InstanceExits(j) ==
    /\ j \in 1..Len(procs)
    /\ procs[j].st = "running"
    /\ procs' = [procs EXCEPT ![j].st = "exited"]
    /\ UNCHANGED <<pc, is_ordered, instances, cwd, original_directory, files,
                   clusters_p, idx, elapsed, waited, timedOut, timeoutAt, best_p,
                   nBest, nParse, checked, exc, calls>>
    /\ UNCHANGED prep

\* ------------------------------------------------------ the waiting phase
\* mutant of RunsBest: the reduction also runs for a single instance
RunsBestAlways(n) == n >= 1

\* lines 147 and 165: is "mcsqs -best" run
RunsBest(n) == n > 1

\* where run_mcsqs goes once the processes have been waited for or killed
AfterInstances == IF RunsBest(instances) THEN "best" ELSE "check"

\* line 145: the time communicate(timeout=search_time * 60) may still
\* block, e ticks after this call began
RemainingTime(e) == Budget - e

\* line 145: the process waited for has exited; communicate reaps it
WaitReturns ==
    /\ pc = "wait"
    /\ procs[idx].st = "exited"
    /\ procs' = [procs EXCEPT ![idx].st = "reaped"]
    /\ elapsed' = 0
    /\ IF idx < Len(procs)
       THEN idx' = idx + 1 /\ pc' = pc /\ waited' = waited
       ELSE idx' = 0 /\ pc' = AfterInstances /\ waited' = 0
    /\ UNCHANGED <<is_ordered, instances, cwd, original_directory, files,
                   clusters_p, timedOut, timeoutAt, best_p, nBest, nParse,
                   checked, exc, calls>>
    /\ UNCHANGED prep

\* line 145: time passes while communicate blocks on a running process
Tick ==
    /\ pc = "wait"
    /\ procs[idx].st = "running"
    /\ RemainingTime(elapsed) > 0
    /\ elapsed' = elapsed + 1
    /\ waited' = waited + 1
    /\ UNCHANGED <<pc, is_ordered, instances, cwd, original_directory, files,
                   clusters_p, procs, idx, timedOut, timeoutAt, best_p, nBest,
                   nParse, checked, exc, calls>>
    /\ UNCHANGED prep

\* mutant of TimeoutExpires: communicate is called without a timeout
NeverExpires(e) == FALSE

\* line 145: the timeout of the communicate call has run out
TimeoutExpires(e) == RemainingTime(e) <= 0

\* lines 145 and 159: communicate raises TimeoutExpired
WaitTimesOut ==
    /\ pc = "wait"
    /\ procs[idx].st = "running"
    /\ TimeoutExpires(elapsed)
    /\ timedOut' = TRUE
    /\ timeoutAt' = idx
    /\ pc' = "kill"
    /\ idx' = 1
    /\ elapsed' = 0
    /\ waited' = 0
    /\ UNCHANGED <<is_ordered, instances, cwd, original_directory, files,
                   clusters_p, procs, best_p, nBest, nParse, checked, exc, calls>>
    /\ UNCHANGED prep

\* mutant of KillIndices: only the process that timed out is killed
KillOnlyTimedOut(n, k) == {k}

\* mutant of KillIndices: the processes after the timed out one are left
KillUpToTimedOut(n, k) == 1..k

\* line 160: the positions of mcsqs_find_sqs_processes the handler visits,
\* of n processes when the wait on process k timed out
KillIndices(n, k) == 1..n

\* lines 160-162: p.kill(); p.communicate() on one process
Kill ==
    /\ pc = "kill"
    /\ procs' = IF idx \in KillIndices(Len(procs), timeoutAt)
                THEN [procs EXCEPT ![idx].st = "reaped", ![idx].killed = TRUE]
                ELSE procs
    /\ IF idx < Len(procs)
       THEN idx' = idx + 1 /\ pc' = pc
       ELSE idx' = 0 /\ pc' = AfterInstances
    /\ UNCHANGED <<is_ordered, instances, cwd, original_directory, files,
                   clusters_p, elapsed, waited, timedOut, timeoutAt, best_p,
                   nBest, nParse, checked, exc, calls>>
    /\ UNCHANGED prep

\* ------------------------------------------- reduction and finalization
\* lines 148-150 and 166-168
BestLaunch ==
    /\ pc = "best"
    /\ best_p' = "running"
    /\ nBest' = nBest + 1
    /\ pc' = "best_wait"
    /\ UNCHANGED <<is_ordered, instances, cwd, original_directory, files,
                   clusters_p, procs, idx, elapsed, waited, timedOut, timeoutAt,
                   nParse, checked, exc, calls>>
    /\ UNCHANGED prep

\* the instances whose two indexed files are both in the directory
CompleteInstances(dir) ==
    {k \in 1..MaxInstances : Exists(dir, SqsOutName(k)) /\ Exists(dir, CorrOutName(k))}

\* lines 151 and 169: "mcsqs -best" exits and communicate() returns.  The
\* binary may leave nothing, or copy the structure of an instance with
\* complete output to bestsqs.out, with or without a report bestcorr.out
BestFinish ==
    /\ pc = "best_wait"
    /\ best_p' = "reaped"
    /\ pc' = "check"
    /\ \/ files' = files
       \/ \E k \in CompleteInstances(files) :
              \/ files' = WriteFile(files, BestSqsOut, files[SqsOutName(k)])
              \/ \E t \in ObjTexts :
                     files' = WriteFile(WriteFile(files, BestSqsOut, files[SqsOutName(k)]),
                                        BestCorrOut, CorrFile(t))
    /\ UNCHANGED <<is_ordered, instances, cwd, original_directory, clusters_p,
                   procs, idx, elapsed, waited, timedOut, timeoutAt, nBest,
                   nParse, checked, exc, calls>>
    /\ UNCHANGED prep

\* lines 153 and 171
BestFilesExist(dir) == Exists(dir, BestSqsOut) /\ Exists(dir, BestCorrOut)

\* mutant of MissingBestError: the timeout error on either path
AlwaysTimeoutError(timeout) == "TimeoutError"

\* lines 157 and 177: the error raised when the best files are missing
MissingBestError(timeout) == IF timeout THEN "TimeoutError" ELSE "Exception"

\* mutant of RestoresDirectory: the chdir back is left out
NeverRestores(timeout) == FALSE

\* line 176: is the working directory restored before that error
RestoresDirectory(timeout) == timeout

\* the outcomes of the last two calls, after one more
Remember(outcome) ==
    IF Len(calls) < 2 THEN Append(calls, outcome) ELSE <<calls[2], outcome>>

\* lines 153-157 and 171-177
Check ==
    /\ pc = "check"
    /\ IF BestFilesExist(files)
       THEN LET r == ParseSqsPath(files, cwd)
            IN  /\ checked' = "present"
                /\ nParse' = nParse + 1
                /\ files' = r.files
                /\ calls' = Remember([exc |-> r.exc, value |-> r.value])
                /\ exc' = r.exc
                /\ pc' = IF r.exc = "none" THEN "returned" ELSE "raised"
                /\ cwd' = cwd
       ELSE /\ checked' = "absent"
            /\ cwd' = IF RestoresDirectory(timedOut) THEN original_directory ELSE cwd
            /\ exc' = MissingBestError(timedOut)
            /\ pc' = "raised"
            /\ UNCHANGED <<nParse, files, calls>>
    /\ UNCHANGED <<is_ordered, instances, original_directory, clusters_p, procs,
                   idx, elapsed, waited, timedOut, timeoutAt, best_p, nBest>>
    /\ UNCHANGED prep

\* the caller calls _parse_sqs_path again on the directory run_mcsqs returned
ParseAgain ==
    /\ pc = "returned"
    /\ LET r == ParseSqsPath(files, cwd)
       IN  /\ files' = r.files
           /\ calls' = Remember([exc |-> r.exc, value |-> r.value])
    /\ UNCHANGED <<pc, is_ordered, instances, cwd, original_directory,
                   clusters_p, procs, idx, elapsed, waited, timedOut, timeoutAt,
                   best_p, nBest, nParse, checked, exc>>
    /\ UNCHANGED prep

Next ==
    \/ Validate
    \/ Chdir
    \/ Scaling
    \/ Prepare
    \/ ClustersLaunch
    \/ ClustersFinish
    \/ Launch
    \/ \E j \in 1..MaxInstances : InstanceWritesSqs(j)
    \/ \E j \in 1..MaxInstances : InstanceWritesCorr(j)
    \/ \E j \in 1..MaxInstances : InstanceExits(j)
    \/ WaitReturns
    \/ Tick
    \/ WaitTimesOut
    \/ Kill
    \/ BestLaunch
    \/ BestFinish
    \/ Check
    \/ ParseAgain

Spec == Init /\ [][Next]_vars

SpecInputs == InitInputs /\ [][Next]_vars

\* the steps of the Python process running run_mcsqs, up to the final test
\* for the best files (lines 75-152 and 159-170)
Orchestrator ==
    \/ Validate \/ Chdir \/ Scaling \/ Prepare \/ ClustersLaunch \/ ClustersFinish
    \/ Launch \/ WaitReturns \/ Tick \/ WaitTimesOut \/ Kill \/ BestLaunch
    \/ BestFinish

\* the step Check takes, told by its effect on the position of run_mcsqs:
\* lines 153-157 and 171-177 end the call, by a return or by a raise
Finishes == pc = "check" /\ pc' \in {"returned", "raised"}

\* the Python process keeps running, time passes, and the cluster
\* generation and reduction processes exit; a search instance need not.
\* Check is enabled whenever pc = "check" and is the only step of Next
\* that leaves that position, so fairness on Finishes is fairness on Check.
FairSpec == Spec /\ WF_vars(Orchestrator) /\ WF_pc(Finishes)

\* ================================================================= claims
\* the outcome of the most recent _parse_sqs_path call
LastCall == calls[Len(calls)]

ParseReturned == calls # <<>> /\ LastCall.exc = "none"

\* the indexed best-structure files bestsqs<i>.out in the run directory
IndexedSqsOut == {n \in DOMAIN files : Len(n) = 3 /\ n[1] = "bestsqs" /\ n[3] = ".out"}

AllReaped == \A j \in 1..Len(procs) : procs[j].st = "reaped"

\* C1: while run_mcsqs waits on the instances, the time spent since the
\* first wait began never exceeds the budget search_time * 60: the waits
\* share one deadline.
C1_SharedDeadline == pc = "wait" => waited <= Budget

\* C2: once a wait has timed out and the handler has left its kill loop
\* (the reduction is being launched or the best files are checked), every
\* launched instance has been sent a kill and has been reaped.
C2_TimeoutKillsAll ==
    (timedOut /\ pc \in {"best", "best_wait", "check", "returned", "raised"}) =>
        /\ Len(procs) = LaunchCount(instances)
        /\ \A j \in 1..Len(procs) : procs[j].killed /\ procs[j].st = "reaped"

\* the wait on the second of three instances timed out: the first had
\* finished, the third was never waited on, and the reduction is running
C2_Witness ==
    /\ timedOut /\ timeoutAt = 2 /\ Len(procs) = 3 /\ pc = "best_wait"
    /\ \A j \in 1..3 : procs[j].killed

\* C3: when the deadline expired and both best files exist after the kill
\* and the reduction, run_mcsqs returns the aggregator's Sqs, raises
\* nothing, and the working directory is still the run directory.
C3_PartialSuccessReturns ==
    (timedOut /\ checked = "present") =>
        pc = "returned" /\ exc = "none" /\ cwd = RunDirectory

\* C4: when the deadline expired and a best file is missing after the kill
\* and the reduction, run_mcsqs raises TimeoutError with the working
\* directory back at the caller's, as captured before the chdir.
C4_HardTimeout ==
    (timedOut /\ checked = "absent") =>
        /\ pc = "raised" /\ exc = "TimeoutError"
        /\ original_directory = CallerDirectory
        /\ cwd = CallerDirectory

\* a timed out parallel run whose reduction left bestsqs.out only
C4_Witness ==
    /\ timedOut /\ checked = "absent" /\ instances > 1 /\ nBest = 1
    /\ Exists(files, BestSqsOut) /\ ~Exists(files, BestCorrOut)

\* C5: when every instance exited in time and a best file is missing after
\* the reduction, run_mcsqs raises the generic Exception, no instance was
\* killed, the reduction ran once at most, and the working directory is
\* still the run directory.
C5_NormalFailure ==
    (~timedOut /\ checked = "absent") =>
        /\ pc = "raised" /\ exc = "Exception"
        /\ cwd = RunDirectory
        /\ \A j \in 1..Len(procs) : ~procs[j].killed
        /\ nBest = IF instances > 1 THEN 1 ELSE 0

\* a parallel run whose instances all exited and left no best files
C5_Witness ==
    /\ ~timedOut /\ checked = "absent" /\ instances > 1 /\ AllReaped
    /\ ~Exists(files, BestSqsOut)

\* C6: the reduction is launched only once every instance has terminated,
\* once when instances > 1 and never when instances = 1, on either path;
\* run_mcsqs calls the aggregator at most once, after the reduction ended.
C6_ReductionThenAggregator ==
    /\ best_p # "none" =>
           Len(procs) = LaunchCount(instances) /\
           \A j \in 1..Len(procs) : procs[j].st # "running"
    /\ nBest <= 1 /\ nParse <= 1
    /\ instances = 1 => nBest = 0
    /\ (pc = "check" \/ checked # "none") =>
           nBest = IF instances > 1 THEN 1 ELSE 0
    /\ nParse = 1 =>
           /\ instances > 1 => best_p = "reaped"
           /\ \A j \in 1..Len(procs) : procs[j].st # "running"

\* a timed out parallel run that returned: one reduction, one aggregation
C6_Witness ==
    pc = "returned" /\ timedOut /\ instances > 1 /\ nBest = 1 /\ nParse = 1

\* C7: after _parse_sqs_path returns, the objective function is the
\* sentinel when bestcorr.out ends in it; the entry of an instance whose
\* report ends in the sentinel carries the numeric best value; the entry of
\* an instance whose report is numeric carries its own value.
C7_SentinelReconciliation ==
    ParseReturned =>
        LET r == LastCall.value
        IN  /\ files[BestCorrOut] = CorrFile(PerfectMatch) =>
                   r.objective_function = Sentinel
            /\ \A i \in 1..Len(r.allsqs) : \A n \in Numerals :
                   /\ (files[CorrOutName(i)] = CorrFile(PerfectMatch) /\
                       files[BestCorrOut] = CorrFile(n)) =>
                          r.allsqs[i].objective_function =
                              [type |-> "float", v |-> NumeralValue(n)]
                   /\ files[CorrOutName(i)] = CorrFile(n) =>
                          r.allsqs[i].objective_function =
                              [type |-> "float", v |-> NumeralValue(n)]

\* the best is 0.25, one instance reports the sentinel, another 0.5
C7_Witness ==
    /\ ParseReturned
    /\ files[BestCorrOut] = CorrFile("0.25")
    /\ \E i, j \in 1..Len(LastCall.value.allsqs) :
           /\ files[CorrOutName(i)] = CorrFile(PerfectMatch)
           /\ files[CorrOutName(j)] = CorrFile("0.5")

\* C8 as stated: every objective function stored in allsqs is a number.
C8_AllNumeric ==
    ParseReturned =>
        \A i \in 1..Len(LastCall.value.allsqs) :
            LastCall.value.allsqs[i].objective_function.type = "float"

\* C8 amended: an objective function stored in allsqs is a number unless
\* both bestcorr.out and the instance's own report end in the sentinel, and
\* then it is the sentinel text.
C8_NumericUnlessBestSentinel ==
    ParseReturned =>
        \A i \in 1..Len(LastCall.value.allsqs) :
            IF files[BestCorrOut] = CorrFile(PerfectMatch) /\
               files[CorrOutName(i)] = CorrFile(PerfectMatch)
            THEN LastCall.value.allsqs[i].objective_function = Sentinel
            ELSE LastCall.value.allsqs[i].objective_function.type = "float"

\* the best and one instance report the sentinel, another instance a number
C8_Witness ==
    /\ ParseReturned
    /\ files[BestCorrOut] = CorrFile(PerfectMatch)
    /\ \E i, j \in 1..Len(LastCall.value.allsqs) :
           /\ LastCall.value.allsqs[i].objective_function = Sentinel
           /\ LastCall.value.allsqs[j].objective_function.type = "float"

\* C9: two successive _parse_sqs_path calls on the same run directory, with
\* nobody else touching it in between, have the same outcome.
C9_Idempotent ==
    Len(calls) = 2 =>
        /\ calls[1].exc = calls[2].exc
        /\ calls[1].exc = "none" => calls[1].value = calls[2].value

\* C10: when _parse_sqs_path returns, allsqs has as many entries as there
\* are indexed files bestsqs<i>.out in the directory, and none after a run
\* with one instance.
C10_InstanceCount ==
    ParseReturned =>
        /\ Len(LastCall.value.allsqs) = Cardinality(IndexedSqsOut)
        /\ instances = 1 => LastCall.value.allsqs = <<>>

\* two of three instances produced output
C10_Witness ==
    ParseReturned /\ instances = 3 /\ Len(LastCall.value.allsqs) = 2

\* the m-th smallest member of a set of numbers
NthOf(S, m) == CHOOSE k \in S : Cardinality({x \in S : x <= k}) = m

\* C11: the call run_mcsqs makes to _parse_sqs_path returns, and allsqs has
\* exactly one entry for each instance whose bestsqs<i>.out and
\* bestcorr<i>.out both exist, in increasing index order, whichever subset
\* of 1..N these instances are.
C11_CoversEveryProducer ==
    (nParse = 1 /\ Len(calls) = 1) =>
        /\ calls[1].exc = "none"
        /\ Len(calls[1].value.allsqs) = Cardinality(CompleteInstances(files))
        /\ \A m \in 1..Len(calls[1].value.allsqs) :
               calls[1].value.allsqs[m].structure =
                   StructureOf(Str2Cif(files[SqsOutName(NthOf(CompleteInstances(files), m))]))

\* ------------------------------------------------------ input preparation
\* the scaling is a scalar that is not an integer value
FractionalScalar == scaling.kind = "scalar" /\ scaling.num % scaling.den # 0

IntegerScalar == scaling.kind = "scalar" /\ scaling.num % scaling.den = 0

\* no cluster generation, search, reduction or converter process was launched
NothingLaunched ==
    clusters_p = "none" /\ procs = <<>> /\ best_p = "none" /\ nParse = 0 /\ calls = <<>>

\* rndstr.in was written or a process was launched
PastPreparation == Exists(files, RndstrIn) \/ ~NothingLaunched

\* C12: run_mcsqs raises ValueError only for an ordered structure or a
\* non-integer scalar scaling, and a run with such an input never launches
\* an external process.
C12_NoProcessOnInvalidInput ==
    /\ exc = "ValueError" => (is_ordered \/ FractionalScalar)
    /\ (is_ordered \/ FractionalScalar) => NothingLaunched

\* a disordered structure with scaling 1.5 was rejected, after the chdir
C12_Witness ==
    pc = "raised" /\ exc = "ValueError" /\ ~is_ordered /\ cwd = RunDirectory

\* C13: when run_mcsqs raises ValueError the working directory is the
\* caller's, and the run has created no directory and no file.
C13_NoCleanupNeeded ==
    exc = "ValueError" => cwd = CallerDirectory /\ ~made_tmp /\ files = <<>>

\* C14 as stated: a scalar scaling gets past input preparation only if it
\* is a positive integer, and is rejected with ValueError otherwise.
C14_OnlyPositiveInteger ==
    /\ (scaling.kind = "scalar" /\ PastPreparation) =>
           IntegerScalar /\ scaling.num > 0
    /\ (scaling.kind = "scalar" /\ ~(IntegerScalar /\ scaling.num > 0) /\
        pc \notin {"start", "chdir", "scaling"}) =>
           pc = "raised" /\ exc = "ValueError"

\* C14 amended: a scalar scaling gets past input preparation only if it is
\* an integer value; a non-integer one is rejected with ValueError; an
\* integer one, zero and negative included, is not rejected.
C14_OnlyInteger ==
    /\ (scaling.kind = "scalar" /\ PastPreparation) => IntegerScalar
    /\ (FractionalScalar /\ pc \notin {"start", "chdir", "scaling"}) =>
           pc = "raised" /\ exc = "ValueError"
    /\ (IntegerScalar /\ ~is_ordered) => exc # "ValueError"

\* a run with scaling -1 has launched its search instances
C14_Witness ==
    scaling = ScalarScaling(0 - 1, 1) /\ procs # <<>> /\ Exists(files, RndstrIn)

\* C15: the processes launched run the shared command and the five weight
\* flags; with instances > 1 there are instances of them and the k-th ends
\* in "-ip k"; otherwise there is one, without an -ip flag.
C15_InstanceLaunch ==
    /\ \A k \in 1..Len(procs) :
           procs[k].cmd =
               mcsqs_find_sqs_cmd \o
               << <<"-T ", TemperatureText>>, <<"-wr ", WrText>>, <<"-wn ", WnText>>,
                  <<"-wd ", WdText>>, <<"-tol ", TolText>> >> \o
               (IF instances > 1 THEN << <<"-ip ">> \o DecStr(k) >> ELSE <<>>)
    /\ (pc \in {"wait", "kill", "best", "best_wait", "check", "returned"}) =>
           Len(procs) = IF instances > 1 THEN instances ELSE 1

\* three instances are launched and the first wait begins
C15_Witness == pc = "wait" /\ idx = 1 /\ instances = 3 /\ Len(procs) = 3

\* C16: once rndstr.in is written, with a scalar scaling s the command has
\* "-n" with s times the atom count, rndstr.in holds the structure as given
\* and there is no sqscell.out; with a list scaling [a, b, c] rndstr.in
\* holds a*b*c times the atoms, sqscell.out is the identity and the command
\* has "-rc"; the processes launched run that command.
C16_ScalingModes ==
    Exists(files, RndstrIn) =>
        /\ IF scaling.kind = "scalar"
           THEN /\ mcsqs_find_sqs_cmd =
                       << <<"mcsqs">>,
                          <<"-n ">> \o IntStr((scaling.num \div scaling.den) * AtomCount) >>
                /\ files[RndstrIn] = RndstrFile(AtomCount)
                /\ ~Exists(files, SqscellOut)
           ELSE /\ files[RndstrIn] =
                       RndstrFile(scaling.abc[1] * scaling.abc[2] * scaling.abc[3] * AtomCount)
                /\ Exists(files, SqscellOut)
                /\ files[SqscellOut] =
                       << <<"1", "\n">>, <<"1", " ", "0", " ", "0", "\n">>,
                          <<"0", " ", "1", " ", "0", "\n">>,
                          <<"0", " ", "0", " ", "1", "\n">> >>
                /\ \E a \in 1..Len(mcsqs_find_sqs_cmd) : mcsqs_find_sqs_cmd[a] = <<"-rc">>
        /\ \A k \in 1..Len(procs) :
               SubSeq(procs[k].cmd, 1, Len(mcsqs_find_sqs_cmd)) = mcsqs_find_sqs_cmd

\* a run with scaling [1, 2, 2] has launched a search instance
C16_Witness ==
    /\ scaling = ListScaling(1, 2, 2) /\ procs # <<>>
    /\ files[RndstrIn] = RndstrFile(4 * AtomCount)

\* ------------------------------------------------------- phases and exits
\* Preparing 1, Generating Clusters 2, Searching 3, Reducing 4,
\* Finalizing 5, terminal 6
PhaseRank(p) ==
    CASE p \in {"start", "chdir", "scaling", "prepare"} -> 1
      [] p \in {"clusters", "clusters_wait"} -> 2
      [] p \in {"launch", "wait", "kill"} -> 3
      [] p \in {"best", "best_wait"} -> 4
      [] p = "check" -> 5
      [] OTHER -> 6

\* C17: the phases follow one another and none is entered again: rndstr.in
\* is written before cluster generation starts, cluster generation has
\* ended before an instance is launched, every instance is launched before
\* the first wait, and the reduction phase exists only for instances > 1.
C17_PhaseOrder ==
    /\ [](/\ PhaseRank(pc) \in 2..5 => Exists(files, RndstrIn)
          /\ PhaseRank(pc) = 2 => procs = <<>>
          /\ procs # <<>> => clusters_p = "reaped"
          /\ pc \in {"wait", "kill", "best", "best_wait", "check"} =>
                 Len(procs) = IF instances > 1 THEN instances ELSE 1
          /\ PhaseRank(pc) = 4 => instances > 1)
    /\ [][PhaseRank(pc') >= PhaseRank(pc)]_vars

\* a parallel run has gone through every phase up to finalization
C17_Witness ==
    pc = "check" /\ instances > 1 /\ nBest = 1 /\ clusters_p = "reaped"

\* C18: every run ends, by a returned result or an exception, even when no
\* search instance exits on its own.
C18_Terminates == <>(pc \in {"returned", "raised"})

\* a run whose only instance never exited on its own has ended
C18_Witness ==
    /\ pc \in {"returned", "raised"} /\ instances = 1
    /\ timedOut /\ procs[1].killed

\* C19: when run_mcsqs ends, whether it returns or raises after the search
\* began, the cluster generation process, every search instance and the
\* reduction process have terminated and been reaped.
C19_NoProcessLeftRunning ==
    (pc \in {"raised", "returned"} /\ ~NothingLaunched) =>
        /\ clusters_p = "reaped"
        /\ Len(procs) = IF instances > 1 THEN instances ELSE 1
        /\ \A j \in 1..Len(procs) : procs[j].st = "reaped"
        /\ best_p = IF instances > 1 THEN "reaped" ELSE "none"

\* the first of three waits timed out and the run raised TimeoutError
C19_Witness ==
    pc = "raised" /\ exc = "TimeoutError" /\ instances = 3 /\ timeoutAt = 1

====
